---- MODULE Spec2Model ----
(***************************************************************************)
(* State-machine model of the Tetris rule engine in src/src/main.rs:       *)
(* the Matrix resource (occupation grid, score, flags), the block entities *)
(* (CurrentTetromino and Heap blocks with their MatrixPosition), the       *)
(* SoftDropTimer and the three systems move_current_tetromino, restart and *)
(* spawn_current_tetromino as bevy schedules them in one frame.            *)
(***************************************************************************)
EXTENDS Integers, Sequences, FiniteSets, Bags, TLC

\* ------------------------------------------------------------------------
\* Bounds of the model.  The program plays on a 10 x (20+4) field
\* (FIELD_WIDTH 10, FIELD_HEIGHT 20); the model keeps the 4 spawn-buffer rows
\* and the spawn anchor and checks a smaller field, a bounded number of keys
\* pressed in the same frame and a bounded drop-row counter.
FIELD_WIDTH == 8
FIELD_HEIGHT == 3
MaxKeys == 2
MaxDropRows == 4

\* ------------------------------------------------------------------------
\* Program constants
START_POS_X == 4
START_POS_Y == 4
BUFFER_ROWS == 4
MAX_LEVEL == 20

width == FIELD_WIDTH
full_height == FIELD_HEIGHT + START_POS_Y
array_size == FIELD_WIDTH * (FIELD_HEIGHT + START_POS_Y)
max_ypos == FIELD_HEIGHT + START_POS_Y - 1

\* TetrominoType discriminants: I=0 O=1 T=2 S=3 Z=4 L=5 J=6
TetrominoType == 0..6

BLOCK_INDICES ==
  [t \in TetrominoType |->
     CASE t = 0 -> << <<3,3>>, <<2,3>>, <<1,3>>, <<0,3>> >>
       [] t = 1 -> << <<0,0>>, <<0,1>>, <<1,0>>, <<1,1>> >>
       [] t = 2 -> << <<0,2>>, <<1,2>>, <<2,2>>, <<1,1>> >>
       [] t = 3 -> << <<0,2>>, <<1,2>>, <<1,1>>, <<2,1>> >>
       [] t = 4 -> << <<2,2>>, <<1,2>>, <<1,1>>, <<0,1>> >>
       [] t = 5 -> << <<2,1>>, <<0,2>>, <<1,2>>, <<2,2>> >>
       [] t = 6 -> << <<0,2>>, <<1,2>>, <<2,2>>, <<0,1>> >>]

SIZES == [t \in TetrominoType |-> CASE t = 0 -> 4 [] t = 1 -> 2 [] OTHER -> 3]

\* ------------------------------------------------------------------------
\* Helpers
Min(S) == CHOOSE m \in S : \A n \in S : m <= n
Max(S) == CHOOSE m \in S : \A n \in S : m >= n

\* (y * width) + x, the index into Matrix::occupation
Address(x, y) == width * y + x

\* a Vec index is legal iff it lies in 0..array_size-1 (a negative i32 cast
\* to usize is far beyond the end)
InArray(a) == a >= 0 /\ a < array_size

Range(f) == {f[i] : i \in DOMAIN f}

\* The order in which the query hands out the n blocks of the piece: the
\* blocks are spawned together and change archetype together, so they stay
\* in the order of their spawn.
QueryOrder(n) == [i \in 1..n |-> i]

\* ------------------------------------------------------------------------
\* rotate_block: the new position of one block, from its position relative
\* to the bounding box; any other combination is the "Unknown" branch and
\* leaves the block where it is.
rotate_block(x, y, min_x, min_y, size_x, size_y, desired_rot) ==
  LET rel_x == x - min_x
      rel_y == y - min_y
      k == <<size_x, size_y, desired_rot, rel_x, rel_y>>
  IN CASE k = <<1, 4, 1, 0, 0>> -> <<x - 1, y + 1>>
       [] k = <<1, 4, 1, 0, 1>> -> <<x, y>>
       [] k = <<1, 4, 1, 0, 2>> -> <<x + 1, y - 1>>
       [] k = <<1, 4, 1, 0, 3>> -> <<x + 2, y - 2>>
       [] k = <<1, 4, -1, 0, 0>> -> <<x + 1, y + 1>>
       [] k = <<1, 4, -1, 0, 1>> -> <<x, y>>
       [] k = <<1, 4, -1, 0, 2>> -> <<x - 1, y - 1>>
       [] k = <<1, 4, -1, 0, 3>> -> <<x - 2, y - 2>>
       [] k = <<4, 1, 1, 0, 0>> -> <<x + 1, y - 1>>
       [] k = <<4, 1, 1, 1, 0>> -> <<x, y>>
       [] k = <<4, 1, 1, 2, 0>> -> <<x - 1, y + 1>>
       [] k = <<4, 1, 1, 3, 0>> -> <<x - 2, y + 2>>
       [] k = <<4, 1, -1, 0, 0>> -> <<x + 2, y + 2>>
       [] k = <<4, 1, -1, 1, 0>> -> <<x + 1, y + 1>>
       [] k = <<4, 1, -1, 2, 0>> -> <<x, y>>
       [] k = <<4, 1, -1, 3, 0>> -> <<x - 1, y - 1>>
       [] k = <<2, 3, -1, 0, 0>> -> <<x, y + 1>>
       [] k = <<2, 3, -1, 1, 0>> -> <<x - 1, y>>
       [] k = <<2, 3, -1, 0, 1>> -> <<x + 1, y>>
       [] k = <<2, 3, -1, 1, 1>> -> <<x, y - 1>>
       [] k = <<2, 3, -1, 0, 2>> -> <<x + 2, y - 1>>
       [] k = <<2, 3, -1, 1, 2>> -> <<x + 1, y - 2>>
       [] k = <<2, 3, 1, 0, 0>> -> <<x + 1, y>>
       [] k = <<2, 3, 1, 1, 0>> -> <<x, y + 1>>
       [] k = <<2, 3, 1, 0, 1>> -> <<x, y - 1>>
       [] k = <<2, 3, 1, 1, 1>> -> <<x - 1, y>>
       [] k = <<2, 3, 1, 0, 2>> -> <<x - 1, y - 2>>
       [] k = <<2, 3, 1, 1, 2>> -> <<x - 2, y - 1>>
       [] k = <<3, 2, 1, 0, 0>> -> <<x + 2, y>>
       [] k = <<3, 2, 1, 1, 0>> -> <<x + 1, y + 1>>
       [] k = <<3, 2, 1, 2, 0>> -> <<x, y + 2>>
       [] k = <<3, 2, 1, 0, 1>> -> <<x + 1, y - 1>>
       [] k = <<3, 2, 1, 1, 1>> -> <<x, y>>
       [] k = <<3, 2, 1, 2, 1>> -> <<x - 1, y + 1>>
       [] k = <<3, 2, -1, 0, 0>> -> <<x, y + 2>>
       [] k = <<3, 2, -1, 1, 0>> -> <<x - 1, y + 1>>
       [] k = <<3, 2, -1, 2, 0>> -> <<x - 2, y>>
       [] k = <<3, 2, -1, 0, 1>> -> <<x + 1, y + 1>>
       [] k = <<3, 2, -1, 1, 1>> -> <<x, y>>
       [] k = <<3, 2, -1, 2, 1>> -> <<x - 1, y - 1>>
       [] OTHER -> <<x, y>>

\* Mutation of BoundingBox: max_x is one column too far to the right, so
\* a 2x2 square is classed as a 3x2 rectangle.
BoundingBox_WideMaxX(pos) ==
  [min_x |-> Min({width} \cup {pos[i][1] : i \in DOMAIN pos}),
   max_x |-> Max({0} \cup {pos[i][1] : i \in DOMAIN pos}) + 1,
   min_y |-> Min({full_height} \cup {pos[i][2] : i \in DOMAIN pos}),
   max_y |-> Max({0} \cup {pos[i][2] : i \in DOMAIN pos})]

\* The bounding box of the current piece as the rotation check computes it
\* (max from 0, min from width / full_height, over whatever blocks exist).
BoundingBox(pos) ==
  [min_x |-> Min({width} \cup {pos[i][1] : i \in DOMAIN pos}),
   max_x |-> Max({0} \cup {pos[i][1] : i \in DOMAIN pos}),
   min_y |-> Min({full_height} \cup {pos[i][2] : i \in DOMAIN pos}),
   max_y |-> Max({0} \cup {pos[i][2] : i \in DOMAIN pos})]

\* The area scanned for collisions, per bounding-box class and direction;
\* square is the (2, 2, _) branch, every unlisted class keeps the zeros.
ScanArea(b, desired_rot) ==
  LET k == <<1 + b.max_x - b.min_x, 1 + b.max_y - b.min_y, desired_rot>>
      R(x0, x1, y0, y1) ==
        [scan_min_x |-> x0, scan_max_x |-> x1,
         scan_min_y |-> y0, scan_max_y |-> y1, square |-> FALSE]
  IN CASE k[1] = 2 /\ k[2] = 2 ->
            [scan_min_x |-> 0, scan_max_x |-> 0,
             scan_min_y |-> 0, scan_max_y |-> 0, square |-> TRUE]
       [] k = <<1, 4, 1>> -> R(b.min_x - 1, b.max_x + 2, b.min_y + 1, b.min_y + 1)
       [] k = <<1, 4, -1>> -> R(b.min_x - 2, b.max_x + 1, b.min_y + 1, b.min_y + 1)
       [] k = <<4, 1, 1>> -> R(b.min_x + 1, b.min_x + 1, b.min_y + 1, b.max_y + 2)
       [] k = <<4, 1, -1>> -> R(b.min_x - 1, b.min_x - 1, b.min_y + 1, b.max_y + 2)
       [] k = <<2, 3, 1>> -> R(b.min_x - 1, b.min_x + 1, b.min_y, b.min_y + 1)
       [] k = <<2, 3, -1>> -> R(b.min_x, b.min_x + 2, b.min_y, b.min_y + 1)
       [] k = <<3, 2, 1>> -> R(b.min_x + 1, b.min_x + 2, b.max_y + 1, b.max_y + 1)
       [] k = <<3, 2, -1>> -> R(b.min_x, b.min_x + 1, b.max_y + 1, b.max_y + 1)
       [] OTHER -> R(0, 0, 0, 0)

\* Mutation of RotationBorderCollision: the right wall is not tested.
RotationBorderCollision_NoRightWall(s) ==
  \/ s.scan_min_x < 0
  \/ s.scan_min_y < 0
  \/ s.scan_max_y >= full_height

\* "Are we trying to rotate over the border?"
RotationBorderCollision(s) ==
  \/ s.scan_min_x < 0
  \/ s.scan_max_x >= width
  \/ s.scan_min_y < 0
  \/ s.scan_max_y >= full_height

\* The 'row_scan loop: a scanned cell outside the bounding box whose
\* occupation is 1.
RotationHeapCollision(occ, b, s) ==
  \E x \in s.scan_min_x..s.scan_max_x : \E y \in s.scan_min_y..s.scan_max_y :
     /\ occ[Address(x, y)] = 1
     /\ (x < b.min_x \/ x > b.max_x \/ y < b.min_y \/ y > b.max_y)

\* can_rot after the rotation check (only evaluated when desired_rot # 0)
CanRot(occ, pos, desired_rot) ==
  LET b == BoundingBox(pos)
      s == ScanArea(b, desired_rot)
  IN /\ ~s.square
     /\ ~RotationBorderCollision(s)
     /\ ~RotationHeapCollision(occ, b, s)

\* Mutation of RotateBlocks: every rotated block lands one row lower.
RECURSIVE RotateBlocks_OneRowLower(_, _, _, _, _, _)
RotateBlocks_OneRowLower(k, ord, occ, pos, b, desired_rot) ==
  IF k > Len(ord)
  THEN [can_rot |-> TRUE, occ |-> occ, pos |-> pos, fault |-> FALSE]
  ELSE LET i == ord[k]
           old == Address(pos[i][1], pos[i][2])
           rot == rotate_block(pos[i][1], pos[i][2], b.min_x, b.min_y,
                               1 + b.max_x - b.min_x, 1 + b.max_y - b.min_y,
                               desired_rot)
           new == <<rot[1], rot[2] + 1>>
           a == Address(new[1], new[2])
       IN IF ~InArray(old) \/ ~InArray(a)
          THEN [can_rot |-> TRUE, occ |-> occ, pos |-> pos, fault |-> TRUE]
          ELSE RotateBlocks_OneRowLower(k + 1, ord,
                                        [occ EXCEPT ![old] = 0, ![a] = 1],
                                        [pos EXCEPT ![i] = new], b,
                                        desired_rot)

\* Mutation of RotateBlocks: the last block of the query is not rotated.
RECURSIVE RotateBlocks_SkipsLast(_, _, _, _, _, _)
RotateBlocks_SkipsLast(k, ord, occ, pos, b, desired_rot) ==
  IF k > Len(ord) - 1
  THEN [can_rot |-> TRUE, occ |-> occ, pos |-> pos, fault |-> FALSE]
  ELSE LET i == ord[k]
           old == Address(pos[i][1], pos[i][2])
           new == rotate_block(pos[i][1], pos[i][2], b.min_x, b.min_y,
                               1 + b.max_x - b.min_x, 1 + b.max_y - b.min_y,
                               desired_rot)
           a == Address(new[1], new[2])
       IN IF ~InArray(old) \/ ~InArray(a)
          THEN [can_rot |-> TRUE, occ |-> occ, pos |-> pos, fault |-> TRUE]
          ELSE RotateBlocks_SkipsLast(k + 1, ord,
                                      [occ EXCEPT ![old] = 0, ![a] = 1],
                                      [pos EXCEPT ![i] = new], b, desired_rot)

\* "Do the rotation" (can_rot holds): the blocks are taken in the order
\* ord; each clears its old cell, takes its rotated position and marks the
\* new cell.  fault is set when an index leaves the occupation array (the
\* Vec index panics).
RECURSIVE RotateBlocks(_, _, _, _, _, _)
RotateBlocks(k, ord, occ, pos, b, desired_rot) ==
  IF k > Len(ord)
  THEN [can_rot |-> TRUE, occ |-> occ, pos |-> pos, fault |-> FALSE]
  ELSE LET i == ord[k]
           old == Address(pos[i][1], pos[i][2])
           new == rotate_block(pos[i][1], pos[i][2], b.min_x, b.min_y,
                               1 + b.max_x - b.min_x, 1 + b.max_y - b.min_y,
                               desired_rot)
           a == Address(new[1], new[2])
       IN IF ~InArray(old) \/ ~InArray(a)
          THEN [can_rot |-> TRUE, occ |-> occ, pos |-> pos, fault |-> TRUE]
          ELSE RotateBlocks(k + 1, ord, [occ EXCEPT ![old] = 0, ![a] = 1],
                            [pos EXCEPT ![i] = new], b, desired_rot)

\* ------------------------------------------------------------------------
\* The horizontal/vertical movement check: the 'my_piece loop over the
\* blocks in the order ord, with its two breaks.
RECURSIVE MovementCheck(_, _, _, _, _, _, _, _)
MovementCheck(k, ord, occ, pos, desired_x, desired_y, can_move_x, can_move_y) ==
  IF k > Len(ord)
  THEN [can_move_x |-> can_move_x, can_move_y |-> can_move_y, fault |-> FALSE]
  ELSE LET x == pos[ord[k]][1]
           y == pos[ord[k]][2]
           \* Sidewalls?
           cx1 == can_move_x /\ ~(x + desired_x < 0 \/ x + desired_x > width - 1)
           ay == Address(x, y + desired_y)
           ax == Address(x + desired_x, y)
           checks_y == can_move_y /\ desired_y # 0
           cy2 == IF checks_y /\ InArray(ay) /\ occ[ay] = 2 THEN FALSE ELSE can_move_y
           checks_x == cx1 /\ desired_x # 0
           cx2 == IF checks_x /\ InArray(ax) /\ occ[ax] = 2 THEN FALSE ELSE cx1
       IN IF y + desired_y > max_ypos
          THEN \* Bottom: break 'my_piece
               [can_move_x |-> cx1, can_move_y |-> FALSE, fault |-> FALSE]
          ELSE IF (checks_y /\ ~InArray(ay)) \/ (checks_x /\ ~InArray(ax))
          THEN [can_move_x |-> cx1, can_move_y |-> can_move_y, fault |-> TRUE]
          ELSE IF ~cx2 /\ ~cy2
          THEN [can_move_x |-> FALSE, can_move_y |-> FALSE, fault |-> FALSE]
          ELSE MovementCheck(k + 1, ord, occ, pos, desired_x, desired_y, cx2, cy2)

\* the bag of the positions held by a sequence of blocks
BagOfBlocks(pos) ==
  [p \in Range(pos) |-> Cardinality({i \in DOMAIN pos : pos[i] = p})]

\* occ with the cell of every block of pos set to v
RECURSIVE MarkBlocks(_, _, _, _)
MarkBlocks(k, occ, pos, v) ==
  IF k > Len(pos) THEN occ
  ELSE MarkBlocks(k + 1, [occ EXCEPT ![Address(pos[k][1], pos[k][2])] = v],
                  pos, v)

BlocksInArray(pos) ==
  \A i \in DOMAIN pos : InArray(Address(pos[i][1], pos[i][2]))

\* "If we can move, do so": clear every old cell, then move every block by
\* (mx, my) and mark its new cell 1.
MoveBlocks(occ, pos, mx, my) ==
  LET new == [i \in DOMAIN pos |-> <<pos[i][1] + mx, pos[i][2] + my>>]
  IN IF ~BlocksInArray(pos) \/ ~BlocksInArray(new)
     THEN [occ |-> occ, pos |-> pos, fault |-> TRUE]
     ELSE [occ |-> MarkBlocks(1, MarkBlocks(1, occ, pos, 0), new, 1),
           pos |-> new, fault |-> FALSE]

\* The lock loop: every block of the piece marks its cell 2.
LockBlocks(occ, pos) ==
  IF ~BlocksInArray(pos)
  THEN [occ |-> occ, fault |-> TRUE]
  ELSE [occ |-> MarkBlocks(1, occ, pos, 2), fault |-> FALSE]

\* Mutation of InTopBuffer: the lowest buffer row does not count.
InTopBuffer_ThreeRows(pos) == \E i \in DOMAIN pos : pos[i][2] < BUFFER_ROWS - 1

\* "If any block is still in the top buffer, we have lost"
InTopBuffer(pos) == \E i \in DOMAIN pos : pos[i][2] < BUFFER_ROWS

\* ------------------------------------------------------------------------
\* State
VARIABLES
  occupation,    \* Matrix::occupation: 0 = open, 1 = current, 2 = heap
  cur,           \* MatrixPosition <<x, y>> of the CurrentTetromino blocks
  tet_type,      \* TetrominoType of the current blocks (-1: there are none)
  heap,          \* bag of the MatrixPosition of the Heap blocks
  create,        \* Matrix::create (a spawn is requested)
  active,        \* Matrix::active (not paused, not lost)
  score,         \* Matrix::score
  level,         \* Matrix::level
  lines_cleared, \* Matrix::lines_cleared
  drop_rows,     \* Matrix::drop_rows
  falling,       \* Matrix::falling (hard drop under way)
  game_over,     \* Matrix::game_over
  timer_full,    \* SoftDropTimer: elapsed was set to the whole duration
  Restart,       \* the Restart resource exists
  pc,            \* position in the frame: "update", "moved", "restarted",
                 \* "postupdate"; "panicked" after an index panic
  pieces,        \* number of pieces spawned so far
  locals,        \* the locals of the run of move_current_tetromino in this
                 \* frame and where it ended: "paused", "idle", "end" or
                 \* "panic" ("none" before it has run)
  fall,          \* since the key that set Matrix::falling: the rows the piece
                 \* has moved down and the runs that returned at the pause
  scan_y,        \* the row index y of the scan for full rows (-1 outside it)
  cleared        \* the rows the last cascade found full, in the order it
                 \* found them (full_rows is their number)

vars == <<occupation, cur, tet_type, heap, create, active, score, level,
          lines_cleared, drop_rows, falling, game_over, timer_full, Restart,
          pc, pieces, locals, fall, scan_y, cleared>>

\* The intents of the input layer (key just pressed in this frame)
Intents == {"MoveLeft", "MoveRight", "SoftDown", "RotateCW", "RotateCCW",
            "HardDrop", "TogglePause", "Restart"}

KeySets == {k \in SUBSET Intents : Cardinality(k) <= MaxKeys}

NoLocals == [desired_x |-> 0, desired_y |-> 0, desired_rot |-> 0,
             can_rot |-> TRUE, can_move_x |-> TRUE, can_move_y |-> TRUE,
             at |-> "none"]

NoFall == [rows |-> 0, paused |-> 0]

\* tetris_setup
Init ==
  /\ occupation = [a \in 0..(array_size - 1) |-> 0]
  /\ cur = <<>>
  /\ tet_type = -1
  /\ heap = EmptyBag
  /\ create = TRUE
  /\ active = TRUE
  /\ score = 0
  /\ level = 1
  /\ lines_cleared = 0
  /\ drop_rows = 0
  /\ falling = FALSE
  /\ game_over = FALSE
  /\ timer_full = FALSE
  /\ Restart = FALSE
  /\ pc = "update"
  /\ pieces = 0
  /\ locals = NoLocals
  /\ fall = NoFall
  /\ scan_y = -1
  /\ cleared = <<>>

\* ------------------------------------------------------------------------
\* move_current_tetromino

\* Mutation of Desired: drop_rows is not incremented while falling.
Desired_NoDropCount(keys, fin) ==
  LET falling1 == falling \/ "HardDrop" \in keys
  IN [falling |-> falling1,
      active |-> IF "TogglePause" \in keys /\ ~game_over
                 THEN ~active ELSE active,
      drop_rows |-> drop_rows,
      desired_x |-> IF falling1 THEN 0
                    ELSE IF "MoveRight" \in keys THEN 1
                    ELSE IF "MoveLeft" \in keys THEN -1 ELSE 0,
      desired_y |-> IF falling1 \/ "SoftDown" \in keys \/ fin THEN 1 ELSE 0,
      desired_rot |-> IF falling1 THEN 0
                      ELSE IF "RotateCCW" \in keys THEN -1
                      ELSE IF "RotateCW" \in keys THEN 1 ELSE 0]

\* Mutation of Desired: a falling piece can still be steered and rotated.
Desired_SteersWhileFalling(keys, fin) ==
  LET falling1 == falling \/ "HardDrop" \in keys
  IN [falling |-> falling1,
      active |-> IF "TogglePause" \in keys /\ ~game_over
                 THEN ~active ELSE active,
      drop_rows |-> IF falling1 THEN drop_rows + 1 ELSE drop_rows,
      desired_x |-> IF "MoveRight" \in keys THEN 1
                    ELSE IF "MoveLeft" \in keys THEN -1 ELSE 0,
      desired_y |-> IF falling1 \/ "SoftDown" \in keys \/ fin THEN 1 ELSE 0,
      desired_rot |-> IF "RotateCCW" \in keys THEN -1
                      ELSE IF "RotateCW" \in keys THEN 1 ELSE 0]

\* Mutation of Desired: the pause key is not gated by game_over.
Desired_PauseUngated(keys, fin) ==
  LET falling1 == falling \/ "HardDrop" \in keys
  IN [falling |-> falling1,
      active |-> IF "TogglePause" \in keys THEN ~active ELSE active,
      drop_rows |-> IF falling1 THEN drop_rows + 1 ELSE drop_rows,
      desired_x |-> IF falling1 THEN 0
                    ELSE IF "MoveRight" \in keys THEN 1
                    ELSE IF "MoveLeft" \in keys THEN -1 ELSE 0,
      desired_y |-> IF falling1 \/ "SoftDown" \in keys \/ fin THEN 1 ELSE 0,
      desired_rot |-> IF falling1 THEN 0
                      ELSE IF "RotateCCW" \in keys THEN -1
                      ELSE IF "RotateCW" \in keys THEN 1 ELSE 0]

\* What the system wants to do, from the keys just pressed and whether the
\* timer just finished: the flags it sets first (falling, active,
\* drop_rows) and the desired move after the falling override.
Desired(keys, fin) ==
  LET falling1 == falling \/ "HardDrop" \in keys
  IN [falling |-> falling1,
      active |-> IF "TogglePause" \in keys /\ ~game_over
                 THEN ~active ELSE active,
      drop_rows |-> IF falling1 THEN drop_rows + 1 ELSE drop_rows,
      desired_x |-> IF falling1 THEN 0
                    ELSE IF "MoveRight" \in keys THEN 1
                    ELSE IF "MoveLeft" \in keys THEN -1 ELSE 0,
      desired_y |-> IF falling1 \/ "SoftDown" \in keys \/ fin THEN 1 ELSE 0,
      desired_rot |-> IF falling1 THEN 0
                      ELSE IF "RotateCCW" \in keys THEN -1
                      ELSE IF "RotateCW" \in keys THEN 1 ELSE 0]

\* the system returns early when paused, or when nothing is wanted
ReturnsEarly(d) ==
  \/ ~d.active
  \/ (d.desired_x = 0 /\ d.desired_y = 0 /\ d.desired_rot = 0)

\* the rotation check and the rotation, when one is wanted
RotationStep(d, ord) ==
  IF ReturnsEarly(d) \/ d.desired_rot = 0
  THEN [can_rot |-> TRUE, occ |-> occupation, pos |-> cur, fault |-> FALSE]
  ELSE IF ~CanRot(occupation, cur, d.desired_rot)
  THEN [can_rot |-> FALSE, occ |-> occupation, pos |-> cur, fault |-> FALSE]
  ELSE RotateBlocks(1, ord, occupation, cur, BoundingBox(cur), d.desired_rot)

\* the guard of the horizontal/vertical movement block
Moving(d) == ~ReturnsEarly(d) /\ (d.desired_x + d.desired_y) # 0

\* the movement check, when the movement block is entered
CheckStep(d, r, ord) ==
  IF Moving(d) /\ ~r.fault
  THEN MovementCheck(1, ord, r.occ, r.pos, d.desired_x, d.desired_y,
                     TRUE, TRUE)
  ELSE [can_move_x |-> TRUE, can_move_y |-> TRUE, fault |-> FALSE]

\* "If we can move, do so"
MoveStep(d, r, c) ==
  IF Moving(d) /\ ~r.fault /\ ~c.fault /\ (c.can_move_x \/ c.can_move_y)
  THEN MoveBlocks(r.occ, r.pos,
                  IF c.can_move_x THEN d.desired_x ELSE 0,
                  IF c.can_move_y THEN d.desired_y ELSE 0)
  ELSE [occ |-> r.occ, pos |-> r.pos, fault |-> r.fault \/ c.fault]

\* "If we want to move down but can't, we must have landed on something"
Locks(d, c) == Moving(d) /\ ~c.can_move_y /\ d.desired_y # 0

\* Mutation of DropBonus: the counter is added as it is.
DropBonus_NoMinusOne(rows) == rows

\* "If we were falling, adjust the score": what a lock under a hard drop
\* adds, "-1 because we increment this counter before checking for
\* collisions"
DropBonus(rows) == rows - 1

LockStep(d, c, t) ==
  IF Locks(d, c) /\ ~t.fault
  THEN LockBlocks(t.occ, t.pos)
  ELSE [occ |-> t.occ, fault |-> t.fault]

\* The run queues a command on a block entity: insert(UpdateBlock) for a
\* rotated or moved block, remove/insert for a locked one.
IssuesCommands(d, r, c) ==
  /\ cur # <<>>
  /\ ~ReturnsEarly(d)
  /\ \/ (d.desired_rot # 0 /\ r.can_rot)
     \/ (Moving(d) /\ (c.can_move_x \/ c.can_move_y))
     \/ Locks(d, c)

\* When the restart system has already run in this frame, its despawn
\* commands and this system's commands are both applied at the end of the
\* stage.  An insert command applied to an entity that is already
\* despawned panics; in which order the stage applies the two buffers is
\* left open, so a run that queued a command after the restart either
\* panics there or does not.
StaleCommandPanics(d, r, c) ==
  IF pc = "restarted" /\ IssuesCommands(d, r, c) THEN BOOLEAN ELSE {FALSE}

\* One run of the system in the Update stage, with the blocks taken in the
\* order of the query.  When the restart system has already run in this
\* frame its despawn commands remove every block at the end of the stage.
\* An index outside the occupation array panics.
move_current_tetromino(keys, fin) ==
  /\ pc \in {"update", "restarted"}
  /\ timer_full => fin
  /\ (falling \/ "HardDrop" \in keys) => drop_rows < MaxDropRows
  /\ \E d \in {Desired(keys, fin)} :
     \E ord \in {QueryOrder(Len(cur))} :
     \E r \in {RotationStep(d, ord)} :
     \E c \in {CheckStep(d, r, ord)} :
     \E t \in {MoveStep(d, r, c)} :
     \E k \in {LockStep(d, c, t)} :
     \E lost \in {game_over \/ (Locks(d, c) /\ InTopBuffer(t.pos))} :
     \E crash \in StaleCommandPanics(d, r, c) :
       /\ locals' = [desired_x |-> d.desired_x, desired_y |-> d.desired_y,
                     desired_rot |-> d.desired_rot, can_rot |-> r.can_rot,
                     can_move_x |-> c.can_move_x,
                     can_move_y |-> c.can_move_y,
                     at |-> IF k.fault THEN "panic"
                            ELSE IF ~d.active THEN "paused"
                            ELSE IF ReturnsEarly(d) THEN "idle" ELSE "end"]
       /\ IF k.fault
          THEN /\ pc' = "panicked"
               /\ UNCHANGED <<occupation, cur, tet_type, heap, create, active,
                              score, level, lines_cleared, drop_rows, falling,
                              game_over, timer_full, Restart, pieces,
                              fall, scan_y, cleared>>
          ELSE /\ occupation' = k.occ
               /\ cur' = IF pc = "restarted" \/ Locks(d, c) THEN <<>>
                         ELSE t.pos
               /\ heap' = IF pc = "restarted" THEN EmptyBag
                          ELSE IF Locks(d, c) THEN heap (+) BagOfBlocks(t.pos)
                          ELSE heap
               /\ tet_type' = IF pc = "restarted" \/ Locks(d, c) THEN -1
                              ELSE tet_type
               /\ active' = IF Locks(d, c) /\ InTopBuffer(t.pos) THEN FALSE
                            ELSE d.active
               /\ falling' = d.falling
               /\ drop_rows' = d.drop_rows
               /\ score' = IF Locks(d, c) /\ d.falling
                           THEN score + DropBonus(d.drop_rows) ELSE score
               /\ create' = IF Locks(d, c) /\ ~lost THEN TRUE ELSE create
               /\ game_over' = lost
               /\ timer_full' = FALSE
               /\ Restart' = IF pc = "restarted" THEN FALSE
                             ELSE (Restart \/ "Restart" \in keys)
               /\ pc' = IF crash THEN "panicked"
                        ELSE IF pc = "update" /\ Restart THEN "moved"
                        ELSE "postupdate"
               /\ fall' = IF ~d.falling THEN fall
                          ELSE IF ~d.active
                          THEN [fall EXCEPT !.paused = @ + 1]
                          ELSE IF c.can_move_y /\ cur # <<>>
                          THEN [fall EXCEPT !.rows = @ + 1]
                          ELSE fall
               /\ UNCHANGED <<level, lines_cleared, pieces, scan_y,
                              cleared>>

\* ------------------------------------------------------------------------
\* spawn_current_tetromino, the last system of the frame

\* "All the blocks in a row must be on the heap"
FullRow(occ, y) == \A x \in 0..(width - 1) : occ[Address(x, y)] = 2

\* Mutation of ShiftRows: the rows are copied from the top down, so that
\* row 0 is copied into every row down to y.
ShiftRows_TopDown(occ, y) ==
  [a \in DOMAIN occ |->
     LET ay == a \div width
     IN IF ay >= 1 /\ ay <= y THEN occ[a % width]
        ELSE IF ay = 0 /\ occ[a] = 2 THEN 0
        ELSE occ[a]]

\* The occupation array after row y was found full: every row from y up to
\* row 1 takes the content of the row above it, and the heap marks of row 0
\* are removed.
ShiftRows(occ, y) ==
  [a \in DOMAIN occ |->
     LET ay == a \div width
     IN IF ay >= 1 /\ ay <= y THEN occ[a - width]
        ELSE IF ay = 0 /\ occ[a] = 2 THEN 0
        ELSE occ[a]]

\* The heap blocks after row y was found full: a block on row y is despawned
\* (its x is set to -1 and nothing looks at it again), a block above it moves
\* down one row.
ShiftHeap(hp, y) ==
  LET keep == {p \in DOMAIN hp : p[2] # y}
      Down(p) == IF p[2] < y THEN <<p[1], p[2] + 1>> ELSE p
  IN [q \in {Down(p) : p \in keep} |-> hp[CHOOSE p \in keep : Down(p) = q]]

\* Mutation of ClearRows: the scan moves up after a full row too.
RECURSIVE ClearRows_NoRescan(_, _, _, _)
ClearRows_NoRescan(y, occ, hp, full_rows) ==
  IF y < 0
  THEN [occ |-> occ, heap |-> hp, full_rows |-> full_rows, at |-> <<>>]
  ELSE IF FullRow(occ, y)
       THEN LET r == ClearRows_NoRescan(y - 1, ShiftRows(occ, y),
                                        ShiftHeap(hp, y), full_rows + 1)
            IN [r EXCEPT !.at = <<y>> \o @]
       ELSE ClearRows_NoRescan(y - 1, occ, hp, full_rows)

\* The scan for full rows, counting from the bottom; a full row is scanned
\* again after the rows above moved into it.  at lists the values of y at
\* which a row was found full.
RECURSIVE ClearRows(_, _, _, _)
ClearRows(y, occ, hp, full_rows) ==
  IF y < 0
  THEN [occ |-> occ, heap |-> hp, full_rows |-> full_rows, at |-> <<>>]
  ELSE IF FullRow(occ, y)
       THEN LET r == ClearRows(y, ShiftRows(occ, y), ShiftHeap(hp, y),
                               full_rows + 1)
            IN [r EXCEPT !.at = <<y>> \o @]
       ELSE ClearRows(y - 1, occ, hp, full_rows)

\* Mutation of RowScore: the level does not multiply the points.
RowScore_NoLevel(full_rows, lvl) ==
  CASE full_rows = 0 -> 0
    [] full_rows = 1 -> 100
    [] full_rows = 2 -> 300
    [] full_rows = 3 -> 500
    [] full_rows = 4 -> 800
    [] OTHER -> full_rows * 300

\* Mutation of RowScore: a cascade without a full row pays like one row.
RowScore_PaysWithoutRows(full_rows, lvl) ==
  CASE full_rows <= 1 -> 100 * lvl
    [] full_rows = 2 -> 300 * lvl
    [] full_rows = 3 -> 500 * lvl
    [] full_rows = 4 -> 800 * lvl
    [] OTHER -> full_rows * 300 * lvl

\* "If we had any full rows, adjust score, level and gravity"
RowScore(full_rows, lvl) ==
  CASE full_rows = 0 -> 0
    [] full_rows = 1 -> 100 * lvl
    [] full_rows = 2 -> 300 * lvl
    [] full_rows = 3 -> 500 * lvl
    [] full_rows = 4 -> 800 * lvl
    [] OTHER -> full_rows * 300 * lvl

\* Mutation of LevelUp: the rows over the threshold are kept.
LevelUp_KeepSurplus(full_rows, lvl, lines) ==
  IF full_rows > 0 /\ lines + full_rows >= lvl * 10
  THEN [level |-> IF lvl + 1 < MAX_LEVEL THEN lvl + 1 ELSE MAX_LEVEL,
        lines_cleared |-> lines + full_rows - lvl * 10]
  ELSE [level |-> lvl, lines_cleared |-> lines + full_rows]

\* Mutation of LevelUp: the level advances only past the threshold.
LevelUp_PastThreshold(full_rows, lvl, lines) ==
  IF full_rows > 0 /\ lines + full_rows > lvl * 10
  THEN [level |-> IF lvl + 1 < MAX_LEVEL THEN lvl + 1 ELSE MAX_LEVEL,
        lines_cleared |-> 0]
  ELSE [level |-> lvl, lines_cleared |-> lines + full_rows]

\* Mutation of LevelUp: the level is not capped.
LevelUp_NoCap(full_rows, lvl, lines) ==
  IF full_rows > 0 /\ lines + full_rows >= lvl * 10
  THEN [level |-> lvl + 1, lines_cleared |-> 0]
  ELSE [level |-> lvl, lines_cleared |-> lines + full_rows]

\* "Adjust level (need 10 * level to advance)"
LevelUp(full_rows, lvl, lines) ==
  IF full_rows > 0 /\ lines + full_rows >= lvl * 10
  THEN [level |-> IF lvl + 1 < MAX_LEVEL THEN lvl + 1 ELSE MAX_LEVEL,
        lines_cleared |-> 0]
  ELSE [level |-> lvl, lines_cleared |-> lines + full_rows]

\* The debug-build check: the cells where the array built from the heap
\* blocks (x >= 0) differs from the occupation array.
ArrayMismatch(occ, hp) ==
  LET marked == {Address(p[1], p[2]) : p \in {q \in DOMAIN hp : q[1] >= 0}}
  IN {a \in DOMAIN occ : (IF a \in marked THEN 2 ELSE 0) # occ[a]}

\* The blocks of a new tetromino of type t, in the order they are spawned
NewBlocks(t) ==
  [i \in 1..4 |-> <<START_POS_X + BLOCK_INDICES[t][i][1],
                    START_POS_Y - SIZES[t] + BLOCK_INDICES[t][i][2]>>]

\* The debug-build check indexes its test array with the address of every
\* heap block whose x is not negative.
DebugCheckPanics(hp) ==
  \E p \in DOMAIN hp : p[1] >= 0 /\ ~InArray(Address(p[1], p[2]))

\* The builds in which the check can panic: a debug build panics when a heap
\* block lies outside the array, a release build does not hold the check.
DebugBuilds(hp) == IF DebugCheckPanics(hp) THEN BOOLEAN ELSE {FALSE}

\* The system after the scan for full rows, c being what the scan left:
\* score, level, timer, the debug-build check and the new tetromino.
FinishSpawn(c) ==
  \E t \in TetrominoType :
  \E debug \in DebugBuilds(c.heap) :
    IF debug
    THEN /\ pc' = "panicked"
         /\ UNCHANGED <<occupation, cur, tet_type, heap, create, active, score,
                        level, lines_cleared, drop_rows, falling, game_over,
                        timer_full, Restart, pieces, locals, fall, scan_y,
                        cleared>>
    ELSE \E u \in {LevelUp(c.full_rows, level, lines_cleared)} :
         \E new \in {NewBlocks(t)} :
            /\ occupation' = MarkBlocks(1, c.occ, new, 1)
            /\ heap' = c.heap
            /\ cur' = new
            /\ tet_type' = t
            /\ score' = score + RowScore(c.full_rows, level)
            /\ level' = u.level
            /\ lines_cleared' = u.lines_cleared
            /\ create' = FALSE
            /\ falling' = FALSE
            /\ drop_rows' = 0
            /\ timer_full' = TRUE
            /\ pieces' = pieces + 1
            /\ pc' = "update"
            /\ locals' = NoLocals
            /\ fall' = NoFall
            /\ cleared' = c.at
            /\ UNCHANGED <<active, game_over, Restart, scan_y>>

\* Mutation of spawn_current_tetromino: the early return is missing.
spawn_current_tetromino_NoEarlyReturn ==
  /\ pc = "postupdate"
  /\ \E c \in {ClearRows(full_height - 1, occupation, heap, 0)} :
       FinishSpawn(c)

\* One run of the system, in the PostUpdate stage.
spawn_current_tetromino ==
  /\ pc = "postupdate"
  /\ IF ~create
     THEN /\ pc' = "update"
          /\ locals' = NoLocals
          /\ UNCHANGED <<occupation, cur, tet_type, heap, create, active,
                         score, level, lines_cleared, drop_rows, falling,
                         game_over, timer_full, Restart, pieces, fall,
                         scan_y, cleared>>
     ELSE \E c \in {ClearRows(full_height - 1, occupation, heap, 0)} :
            FinishSpawn(c)

\* ------------------------------------------------------------------------
\* The same system with the scan for full rows taken one iteration of its
\* while loop at a time: pc is "cascade" inside the loop and scan_y is the
\* loop's y.

\* Mutation of ScanRow: the scan does not move up from a row that is not
\* full.
ScanRow_NoAdvance(y, occ, hp) ==
  IF FullRow(occ, y)
  THEN [y |-> y, occ |-> ShiftRows(occ, y), heap |-> ShiftHeap(hp, y),
        full_row |-> TRUE]
  ELSE [y |-> y, occ |-> occ, heap |-> hp, full_row |-> FALSE]

\* One iteration of the while loop at row y: a full row is removed and y
\* stays, any other row is left and y moves up.
ScanRow(y, occ, hp) ==
  IF FullRow(occ, y)
  THEN [y |-> y, occ |-> ShiftRows(occ, y), heap |-> ShiftHeap(hp, y),
        full_row |-> TRUE]
  ELSE [y |-> y - 1, occ |-> occ, heap |-> hp, full_row |-> FALSE]

\* the system runs up to the loop: past the early return, the flags reset
cascade_begin ==
  /\ pc = "postupdate"
  /\ create
  /\ pc' = "cascade"
  /\ scan_y' = full_height - 1
  /\ create' = FALSE
  /\ falling' = FALSE
  /\ drop_rows' = 0
  /\ cleared' = <<>>
  /\ UNCHANGED <<occupation, cur, tet_type, heap, active, score, level,
                 lines_cleared, game_over, timer_full, Restart, pieces,
                 locals, fall>>

\* one iteration of the loop
cascade_row ==
  /\ pc = "cascade"
  /\ scan_y >= 0
  /\ \E r \in {ScanRow(scan_y, occupation, heap)} :
       /\ scan_y' = r.y
       /\ occupation' = r.occ
       /\ heap' = r.heap
       /\ cleared' = IF r.full_row THEN Append(cleared, scan_y) ELSE cleared
  /\ UNCHANGED <<cur, tet_type, create, active, score, level, lines_cleared,
                 drop_rows, falling, game_over, timer_full, Restart, pc,
                 pieces, locals, fall>>

\* the loop is left and the system runs to its end
cascade_end ==
  /\ pc = "cascade"
  /\ ~(scan_y >= 0)
  /\ FinishSpawn([occ |-> occupation, heap |-> heap,
                  full_rows |-> Len(cleared), at |-> cleared])

\* Mutation of restart: the occupation array is not cleared.
restart_KeepsGrid ==
  /\ Restart
  /\ pc \in {"update", "moved"}
  /\ score' = 0
  /\ level' = 1
  /\ lines_cleared' = 0
  /\ drop_rows' = 0
  /\ active' = TRUE
  /\ falling' = FALSE
  /\ create' = TRUE
  /\ game_over' = FALSE
  /\ IF pc = "moved"
     THEN /\ cur' = <<>>
          /\ tet_type' = -1
          /\ heap' = EmptyBag
          /\ Restart' = FALSE
          /\ pc' = "postupdate"
     ELSE /\ pc' = "restarted"
          /\ UNCHANGED <<cur, tet_type, heap, Restart>>
  /\ fall' = NoFall
  /\ UNCHANGED <<occupation, timer_full, pieces, locals, scan_y, cleared>>

\* ------------------------------------------------------------------------
\* restart: runs in the Update stage, before or after move_current_tetromino;
\* it acts only when the Restart resource exists.  Its despawn commands take
\* effect at the end of the stage.
restart ==
  /\ Restart
  /\ pc \in {"update", "moved"}
  /\ score' = 0
  /\ level' = 1
  /\ lines_cleared' = 0
  /\ drop_rows' = 0
  /\ active' = TRUE
  /\ falling' = FALSE
  /\ create' = TRUE
  /\ game_over' = FALSE
  /\ occupation' = [a \in DOMAIN occupation |-> 0]
  /\ IF pc = "moved"
     THEN /\ cur' = <<>>
          /\ tet_type' = -1
          /\ heap' = EmptyBag
          /\ Restart' = FALSE
          /\ pc' = "postupdate"
     ELSE /\ pc' = "restarted"
          /\ UNCHANGED <<cur, tet_type, heap, Restart>>
  /\ fall' = NoFall
  /\ UNCHANGED <<timer_full, pieces, locals, scan_y, cleared>>

\* A frame with any of the intents
Tick == \E keys \in KeySets : \E fin \in BOOLEAN : move_current_tetromino(keys, fin)

\* A frame with movement and rotation intents only
PlayIntents == {"MoveLeft", "MoveRight", "SoftDown", "RotateCW", "RotateCCW"}

PlayTick == \E keys \in KeySets \cap SUBSET PlayIntents :
              \E fin \in BOOLEAN : move_current_tetromino(keys, fin)

\* ------------------------------------------------------------------------
\* The game from its construction: the first piece is played with movement
\* and rotation intents until it locks, and the spawn cycle that follows the
\* lock runs.
FirstPiece == pieces <= 1 /\ PlayTick

FirstSpawns == pieces <= 1 /\ spawn_current_tetromino

Next == FirstPiece \/ FirstSpawns

Spec == Init /\ [][Next]_vars

\* ------------------------------------------------------------------------
\* The game with a heap: the first piece was an I that fell to the floor
\* without any key (HeapInit is the state Spec reaches when it locks); the
\* second piece is played with movement and rotation intents until it locks,
\* and the spawn cycle that follows the lock runs.
HeapBlocks == [i \in 1..4 |-> <<NewBlocks(0)[i][1], max_ypos>>]

HeapInit ==
  /\ occupation = MarkBlocks(1, [a \in 0..(array_size - 1) |-> 0],
                             HeapBlocks, 2)
  /\ cur = <<>>
  /\ tet_type = -1
  /\ heap = BagOfBlocks(HeapBlocks)
  /\ create = TRUE
  /\ active = TRUE
  /\ score = 0
  /\ level = 1
  /\ lines_cleared = 0
  /\ drop_rows = 0
  /\ falling = FALSE
  /\ game_over = FALSE
  /\ timer_full = FALSE
  /\ Restart = FALSE
  /\ pc = "postupdate"
  /\ pieces = 1
  /\ locals = [desired_x |-> 0, desired_y |-> 1, desired_rot |-> 0,
               can_rot |-> TRUE, can_move_x |-> TRUE, can_move_y |-> FALSE,
               at |-> "end"]
  /\ fall = NoFall
  /\ scan_y = -1
  /\ cleared = <<>>

SecondPiece == pieces = 2 /\ PlayTick

SecondSpawns == pieces \in {1, 2} /\ spawn_current_tetromino

NextHeap == SecondPiece \/ SecondSpawns

SpecHeap == HeapInit /\ [][NextHeap]_vars

\* Spec reaches HeapInit: TLC refutes this invariant of Spec.
HeapInitNotReached == ~HeapInit

\* ------------------------------------------------------------------------
\* The game with a heap and the hard drop: from HeapInit the second piece is
\* played with moves to the left, clockwise rotations, the SoftDown key, the
\* timer and the HardDrop key until it locks, and the spawn cycle that
\* follows the lock runs; an I piece laid beside the heap fills the bottom
\* row.
DropIntents == {"MoveLeft", "SoftDown", "RotateCW", "HardDrop"}

DropTick == \E keys \in KeySets \cap SUBSET DropIntents :
              \E fin \in BOOLEAN : move_current_tetromino(keys, fin)

DropPiece == pieces = 2 /\ DropTick

DropSpawns == pieces \in {1, 2} /\ spawn_current_tetromino

NextDrop == DropPiece \/ DropSpawns

SpecDrop == HeapInit /\ [][NextDrop]_vars

\* ------------------------------------------------------------------------
\* The game from its construction with every intent: the first piece is
\* played with movement, rotation, hard drop, pause and restart until it
\* locks or the game is restarted, and the spawn cycle that follows runs.
\* The down intent comes from the timer; the SoftDown key, moves to the
\* right and counter-clockwise rotations are left to Spec.
GameIntents == {"MoveLeft", "RotateCW", "HardDrop", "TogglePause", "Restart"}

GameTick == \E keys \in KeySets \cap SUBSET GameIntents :
              \E fin \in BOOLEAN : move_current_tetromino(keys, fin)

GamePiece == pieces <= 1 /\ GameTick

GameRestarts == pieces <= 1 /\ restart

GameSpawns == pieces <= 1 /\ spawn_current_tetromino

NextGame == GamePiece \/ GameRestarts \/ GameSpawns

SpecGame == Init /\ [][NextGame]_vars

\* ------------------------------------------------------------------------
\* The spawn cycle over a heap.  A piece has just locked without ending the
\* game (create is set) on a heap that stands on the floor and is made of
\* rows that are full, full but for the last column, or filled in their 4
\* left columns; level, lines counter and score are those of a game that
\* cleared its rows one at a time.  The spawn cycle runs; when the Restart
\* key was pressed in the frame of the lock, the restart system acts in the
\* next frame.
RowPatterns == {"full", "gap", "left"}

RowCells(p) ==
  CASE p = "full" -> 0..(width - 1)
    [] p = "gap" -> 0..(width - 2)
    [] p = "left" -> 0..3

\* the heaps of n rows, each listed from the floor upwards
HeapLayouts == UNION {[1..n -> RowPatterns] : n \in 0..FIELD_HEIGHT}

LayoutBlocks(rows) ==
  UNION {{<<x, max_ypos - (i - 1)>> : x \in RowCells(rows[i])} :
           i \in DOMAIN rows}

CascadeLevels == {1, 2, MAX_LEVEL - 1, MAX_LEVEL}

\* the lines counters tried at level lvl: just after a level-up and close
\* enough to the next one for the rows of the field to reach it
CascadeLines(lvl) ==
  {c \in 0..(10 * lvl - 1) : c <= 1 \/ c >= 10 * lvl - (FIELD_HEIGHT + 1)}

\* the score of a game that reached level lvl and c lines by clearing one
\* row at a time: 10 * l rows at 100 * l each for every level l below lvl
SinglesScore(lvl, c) ==
  1000 * (((lvl - 1) * lvl * (2 * lvl - 1)) \div 6) + 100 * lvl * c

CascadeInit ==
  \E rows \in HeapLayouts : \E lvl \in CascadeLevels :
  \E c \in CascadeLines(lvl) :
    /\ occupation = [a \in 0..(array_size - 1) |->
                       IF <<a % width, a \div width>> \in LayoutBlocks(rows)
                       THEN 2 ELSE 0]
    /\ cur = <<>>
    /\ tet_type = -1
    /\ heap = [q \in LayoutBlocks(rows) |-> 1]
    /\ create = TRUE
    /\ active = TRUE
    /\ score = SinglesScore(lvl, c)
    /\ level = lvl
    /\ lines_cleared = c
    /\ drop_rows = 0
    /\ falling = FALSE
    /\ game_over = FALSE
    /\ timer_full = FALSE
    /\ Restart \in BOOLEAN
    /\ pc = "postupdate"
    /\ pieces = 1
    /\ locals = [desired_x |-> 0, desired_y |-> 1, desired_rot |-> 0,
                 can_rot |-> TRUE, can_move_x |-> TRUE, can_move_y |-> FALSE,
                 at |-> "end"]
    /\ fall = NoFall
    /\ scan_y = -1
    /\ cleared = <<>>

CascadeSpawns == pieces = 1 /\ spawn_current_tetromino

CascadeRestarts == pieces = 2 /\ restart

NextCascade == CascadeSpawns \/ CascadeRestarts

SpecCascade == CascadeInit /\ [][NextCascade]_vars

\* ------------------------------------------------------------------------
\* The same spawn cycles with the scan for full rows taken one iteration at
\* a time.  A system that has started runs on: the steps of the cycle are
\* weakly fair.
ScanBegins == pieces = 1 /\ cascade_begin

ScanRows == pieces = 1 /\ cascade_row

ScanEnds == pieces = 1 /\ cascade_end

NextScan == ScanBegins \/ ScanRows \/ ScanEnds

SpecScan == CascadeInit /\ [][NextScan]_vars /\ WF_vars(NextScan)

\* ------------------------------------------------------------------------
\* Observations used by the properties

\* a position lies inside [0,width) x [0,full_height)
InField(p) ==
  p[1] >= 0 /\ p[1] < width /\ p[2] >= 0 /\ p[2] < full_height

\* the positions of the cells of occ that hold the mark v
CellsMarked(occ, v) ==
  {<<a % width, a \div width>> : a \in {b \in DOMAIN occ : occ[b] = v}}

\* the positions an accepted rotation gives to the blocks of pos
Rotated(pos, desired_rot) ==
  LET b == BoundingBox(pos)
  IN [i \in DOMAIN pos |->
        rotate_block(pos[i][1], pos[i][2], b.min_x, b.min_y,
                     1 + b.max_x - b.min_x, 1 + b.max_y - b.min_y,
                     desired_rot)]

\* the piece is a 2x2 square
IsSquare(pos) ==
  /\ Len(pos) = 4
  /\ LET x == Min({pos[i][1] : i \in DOMAIN pos})
         y == Min({pos[i][2] : i \in DOMAIN pos})
     IN Range(pos) = {<<x, y>>, <<x + 1, y>>, <<x, y + 1>>, <<x + 1, y + 1>>}

\* the piece is a bar, upright or flat
IsBar(pos) ==
  /\ Len(pos) = 4
  /\ LET b == BoundingBox(pos)
     IN <<1 + b.max_x - b.min_x, 1 + b.max_y - b.min_y>>
          \in {<<1, 4>>, <<4, 1>>}

\* some block of pos cannot move by desired_x: a side wall or a heap cell
BlockedX(occ, pos, desired_x) ==
  \E i \in DOMAIN pos :
     \/ pos[i][1] + desired_x < 0
     \/ pos[i][1] + desired_x > width - 1
     \/ occ[Address(pos[i][1] + desired_x, pos[i][2])] = 2

\* some block of pos cannot move down: the floor or a heap cell
BlockedY(occ, pos) ==
  \E i \in DOMAIN pos :
     \/ pos[i][2] + 1 > max_ypos
     \/ occ[Address(pos[i][1], pos[i][2] + 1)] = 2

\* a step in which move_current_tetromino ran (to its end, or to a panic)
MoveRan == pc = "update" /\ pc' \in {"postupdate", "moved", "panicked"}

\* a step in which it ran past its early returns and did not panic
MoveDone == MoveRan /\ locals'.at = "end"

\* the tick asked for a rotation and for nothing else
RotationOnly(l) == l.desired_rot # 0 /\ l.desired_x = 0 /\ l.desired_y = 0

\* the positions of the blocks of the piece after the step: the current
\* blocks, or the blocks that joined the heap when the piece locked
PieceAfter ==
  IF cur' # <<>> THEN Range(cur') ELSE BagToSet(heap' (-) heap)

\* a step in which move_current_tetromino ran to its end, before or after
\* the restart system
MoveEnd ==
  /\ pc \in {"update", "restarted"}
  /\ pc' \in {"postupdate", "moved"}
  /\ locals'.at = "end"

\* the run of move_current_tetromino of this step locked the piece
LockedNow ==
  /\ MoveEnd
  /\ (locals'.desired_x + locals'.desired_y) # 0
  /\ ~locals'.can_move_y
  /\ locals'.desired_y # 0

\* a step in which spawn_current_tetromino ran past its early return
SpawnRan == pc = "postupdate" /\ create /\ pc' = "update"

\* a step of the restart system in which it acted
RestartRan ==
  \/ pc = "update" /\ pc' = "restarted"
  \/ pc = "moved" /\ pc' = "postupdate"

\* ------------------------------------------------------------------------
\* Properties

\* C1: in every state between the systems the cells marked 1 (Current) are
\* exactly the positions of the blocks of the current piece, and there are 0
\* or 4 of them.
C1_CurrentCellsArePiece ==
  pc # "panicked" =>
    /\ CellsMarked(occupation, 1) = Range(cur)
    /\ Cardinality(CellsMarked(occupation, 1)) \in {0, 4}

\* C2: a tick that asks for a rotation only, where a cell the rotated piece
\* would newly occupy is marked 2 (Locked), leaves the positions of the 4
\* blocks and the whole occupation array unchanged.
C2_RotationIntoLockedRejected ==
  [][(/\ MoveDone
      /\ RotationOnly(locals')
      /\ \E p \in Range(Rotated(cur, locals'.desired_rot)) \ Range(cur) :
            InField(p) /\ occupation[Address(p[1], p[2])] = 2)
     => (cur' = cur /\ occupation' = occupation)]_vars

\* C3: in a tick with a move intent and no rotation, when some block cannot
\* move horizontally (side wall or Locked cell) no block changes its x, and
\* when some block cannot move down (floor or Locked cell) no block changes
\* its y.
C3_TranslationAtomicPerAxis ==
  [][(MoveDone /\ locals'.desired_rot = 0 /\ cur # <<>>)
     => /\ (locals'.desired_x # 0
              /\ BlockedX(occupation, cur, locals'.desired_x))
           => \E my \in {0, 1} :
                 PieceAfter = {<<q[1], q[2] + my>> : q \in Range(cur)}
        /\ (locals'.desired_y # 0 /\ BlockedY(occupation, cur))
           => \E mx \in {-1, 0, 1} :
                 PieceAfter = {<<q[1] + mx, q[2]>> : q \in Range(cur)}]_vars

\* C4: after a tick with no rotation that moved a piece none of whose blocks
\* shared a cell with a heap block, none of the new positions of its blocks
\* is a cell that was marked 2 (Locked) before the tick.
C4_TranslationAvoidsLocked ==
  [][(/\ MoveDone
      /\ locals'.desired_rot = 0
      /\ cur # <<>>
      /\ \A q \in Range(cur) : ~BagIn(q, heap)
      /\ PieceAfter # Range(cur))
     => \A p \in PieceAfter :
           ~(InField(p) /\ occupation[Address(p[1], p[2])] = 2)]_vars

\* C5: right after a spawn cycle the cells marked 2 (Locked) are exactly the
\* positions of the heap blocks, and no two heap blocks have the same
\* position.
C5_LockedCellsAreHeap ==
  (pc = "update" /\ timer_full) =>
    /\ CellsMarked(occupation, 2) = BagToSet(heap)
    /\ \A p \in BagToSet(heap) : heap[p] = 1

\* C6: when a tick rotates a bar and nothing else, and the opposite rotation
\* is accepted in the state it leaves, the opposite rotation puts each of
\* the 4 blocks back on the position it had before the tick.
C6_BarRotationRoundTrip ==
  [][(/\ MoveDone
      /\ RotationOnly(locals')
      /\ locals'.can_rot
      /\ IsBar(cur)
      /\ CanRot(occupation', cur', 0 - locals'.desired_rot))
     => Rotated(cur', 0 - locals'.desired_rot) = cur]_vars

\* C7: a rotation is accepted only when every rotated block lies inside
\* [0,width) x [0,full_height); the blocks of an accepted rotation take
\* exactly the rotated positions, the rotation never panics on an index, and
\* a tick with a rejected rotation and no other intent leaves all 4
\* positions unchanged.
C7_RotationStaysInField ==
  [][(MoveRan /\ locals'.at \in {"end", "panic"}
        /\ locals'.desired_rot # 0 /\ cur # <<>>)
     => /\ locals'.can_rot
           => \A p \in Range(Rotated(cur, locals'.desired_rot)) : InField(p)
        /\ RotationOnly(locals')
           => /\ pc' # "panicked"
              /\ cur' = IF locals'.can_rot
                        THEN Rotated(cur, locals'.desired_rot) ELSE cur
              /\ \A p \in Range(cur') : InField(p)]_vars

\* C7 witness: a rotation was asked for alone, a rotated block would lie
\* outside the field, and the rotation was rejected.
C7_Witness ==
  /\ locals.at = "end"
  /\ RotationOnly(locals)
  /\ ~locals.can_rot
  /\ cur # <<>>
  /\ \E p \in Range(Rotated(cur, locals.desired_rot)) : ~InField(p)

\* C8: every tick that asks for a rotation of a 2x2 square rejects the
\* rotation, and when nothing else is asked the 4 positions and the whole
\* occupation array are unchanged.
C8_SquareNeverRotates ==
  [][(MoveRan /\ locals'.at \in {"end", "panic"}
        /\ locals'.desired_rot # 0 /\ IsSquare(cur))
     => /\ ~locals'.can_rot
        /\ RotationOnly(locals')
           => (pc' # "panicked" /\ cur' = cur
                 /\ occupation' = occupation)]_vars

\* C8 witness: a rotation alone was asked of a square.
C8_Witness ==
  /\ locals.at = "end"
  /\ RotationOnly(locals)
  /\ pc = "postupdate"
  /\ IsSquare(cur)

\* C9: in a tick that is not paused, carries a down intent and no rotation,
\* and in which some block cannot move down, the piece locks: it stops
\* being the current piece and its 4 blocks join the heap on cells marked 2.
C9_BlockedDescentLocks ==
  [][(/\ MoveDone
      /\ locals'.desired_y # 0
      /\ locals'.desired_rot = 0
      /\ cur # <<>>
      /\ BlockedY(occupation, cur))
     => /\ cur' = <<>>
        /\ BagCardinality(heap' (-) heap) = 4
        /\ \A p \in BagToSet(heap' (-) heap) :
              occupation'[Address(p[1], p[2])] = 2]_vars

\* C10: when a piece locks, game_over becomes true exactly when one of its
\* 4 blocks has y < 4; all 4 cells are marked 2 either way; on game over
\* active is false and create is not set, otherwise create is set and the
\* game stays active.
C10_LockAndGameOver ==
  [][(MoveDone /\ cur # <<>> /\ cur' = <<>>)
     => /\ BagCardinality(heap' (-) heap) = 4
        /\ \A p \in BagToSet(heap' (-) heap) :
              occupation'[Address(p[1], p[2])] = 2
        /\ game_over' <=> (\E p \in BagToSet(heap' (-) heap) :
                              p[2] < BUFFER_ROWS)
        /\ game_over' => (~active' /\ ~create')
        /\ ~game_over' => (active' /\ create')]_vars

\* C10 witness: a piece has locked with a block in the spawn buffer.
C10_Witness ==
  /\ game_over
  /\ cur = <<>>
  /\ ~active
  /\ ~create
  /\ \E p \in BagToSet(heap) : p[2] < BUFFER_ROWS /\
        occupation[Address(p[1], p[2])] = 2

\* C11: once game_over is set (and no spawn is requested: only a restart
\* applied in the same frame requests one), every step of the frame other
\* than the restart system acting leaves the occupation array, the positions
\* of all blocks, score, level, active and game_over unchanged, whatever the
\* keys and the timer; game_over is reset only by the restart system.
C11_GameOverFrozen ==
  [][/\ (game_over /\ ~create /\ ~RestartRan)
        => UNCHANGED <<occupation, cur, heap, score, level, active, game_over>>
     /\ (game_over /\ ~game_over') => RestartRan]_vars

\* C11 witness: the game is over and the movement system has just run with
\* a horizontal, a rotation or a pause intent, or with a hard drop.
C11_Witness ==
  /\ game_over
  /\ pc = "postupdate"
  /\ locals.at = "paused"
  /\ locals.desired_x # 0 \/ locals.desired_rot # 0 \/ fall.paused > 0
  /\ ~Restart

\* C12: a run of the movement system that starts and ends paused (active
\* false, game not over) leaves the occupation array, the positions of all
\* blocks, score, level, falling and drop_rows unchanged.
C12_PausedTickChangesNothing ==
  [][(MoveRan /\ ~active /\ ~active' /\ ~game_over)
     => UNCHANGED <<occupation, cur, heap, score, level, falling,
                    drop_rows>>]_vars

\* C13 as claimed: a lock under a hard drop in which the piece moved down
\* k >= 1 rows since the HardDrop key adds k - 1 to the score.
C13_HardDropAddsRowsMinusOne ==
  [][(LockedNow /\ falling' /\ fall'.rows >= 1)
     => score' = score + (fall'.rows - 1)]_vars

\* C13 amended: a lock under a hard drop in which the piece moved down k
\* rows since the HardDrop key adds k to the score, plus one for every run
\* of the fall that returned at the pause; a lock without a hard drop adds
\* nothing.
C13_HardDropAddsRowsFallen ==
  [][LockedNow
     => score' = IF falling' THEN score + fall'.rows + fall'.paused
                 ELSE score]_vars

\* C13 witness: a piece has locked after a hard drop of at least 2 rows
\* with no pause, and the score is the number of rows.
C13_Witness ==
  /\ pc = "postupdate"
  /\ locals.at = "end"
  /\ cur = <<>>
  /\ falling
  /\ fall.rows >= 2
  /\ fall.paused = 0
  /\ score = fall.rows

C15_LevelUp ==
  [][(SpawnRan /\ Len(cleared') >= 1)
     => IF lines_cleared + Len(cleared') >= 10 * level
        THEN /\ level' = Min({level + 1, MAX_LEVEL})
             /\ lines_cleared' = 0
        ELSE /\ level' = level
             /\ lines_cleared' = lines_cleared + Len(cleared')]_vars

\* C15 witness: 2 rows were cleared at level 1 with 9 lines on the counter;
\* the level is 2 and the counter 0, the row over the threshold is gone.
C15_Witness ==
  /\ pc = "update"
  /\ pieces = 2
  /\ Len(cleared) = 2
  /\ level = 2
  /\ lines_cleared = 0
  /\ score = SinglesScore(1, 9) + 300

\* C16: the level is always in 1..20, and no step other than the restart
\* system acting makes it smaller.
C16_LevelRange ==
  /\ [](level \in 1..MAX_LEVEL)
  /\ [][~RestartRan => level' >= level]_vars

\* C16 witness: rows were cleared at level 20 with the counter reaching
\* 10 * 20; the level is still 20 and the counter 0.
C16_Witness ==
  /\ pc = "update"
  /\ pieces = 2
  /\ Len(cleared) >= 1
  /\ level = MAX_LEVEL
  /\ lines_cleared = 0
  /\ score >= SinglesScore(MAX_LEVEL, 10 * MAX_LEVEL - (FIELD_HEIGHT + 1))

\* C17: no step other than the restart system acting makes the score
\* smaller, and whenever a piece locks under a hard drop drop_rows is at
\* least 1, so that drop_rows - 1 does not underflow.
C17_ScoreNeverDecreases ==
  [][/\ ~RestartRan => score' >= score
     /\ (LockedNow /\ falling') => drop_rows' >= 1]_vars

\* C17 witness: a piece has locked under a hard drop during which the game
\* was paused, and the bonus was added.
C17_Witness ==
  /\ pc = "postupdate"
  /\ locals.at = "end"
  /\ cur = <<>>
  /\ falling
  /\ fall.paused >= 1
  /\ drop_rows >= 2
  /\ score = drop_rows - 1

\* C18: after the cascade of a spawn cycle no row of the occupation array
\* is fully marked 2 (Locked), and the number of rows the cascade counted
\* is the number of fully Locked rows there were when it started.
C18_CascadeClearsAllFullRows ==
  [][SpawnRan
     => /\ \A y \in 0..(full_height - 1) : ~FullRow(occupation', y)
        /\ Len(cleared') =
             Cardinality({y \in 0..(full_height - 1) :
                            FullRow(occupation, y)})]_vars

\* C18 witness: two adjacent full rows were cleared under a row that
\* stayed: the scan found a full row twice at the same index.
C18_Witness ==
  /\ pc = "update"
  /\ pieces = 2
  /\ cleared = <<max_ypos - 1, max_ypos - 1>>
  /\ CellsMarked(occupation, 2) # {}

\* C19: the cascade of a spawn cycle that removes n rows moves every row
\* that was not full down by the number of full rows that were below it,
\* leaves the n topmost rows empty and leaves the rows below the lowest
\* full row as they were; the spawn then marks the cells of the new piece.
C19_CascadePacksRows ==
  [][SpawnRan
     => LET full == {y \in 0..(full_height - 1) : FullRow(occupation, y)}
            Below(y) == Cardinality({f \in full : f > y})
            c == ClearRows(full_height - 1, occupation, heap, 0)
        IN /\ \A y \in (0..(full_height - 1)) \ full :
                 \A x \in 0..(width - 1) :
                    c.occ[Address(x, y + Below(y))] = occupation[Address(x, y)]
           /\ \A y \in 0..(Cardinality(full) - 1) :
                 \A x \in 0..(width - 1) : c.occ[Address(x, y)] = 0
           /\ \A y \in 0..(full_height - 1) :
                 (\A f \in full : f < y)
                 => \A x \in 0..(width - 1) :
                       c.occ[Address(x, y)] = occupation[Address(x, y)]
           /\ \A a \in DOMAIN occupation :
                 occupation'[a] =
                   IF <<a % width, a \div width>> \in Range(cur')
                   THEN 1 ELSE c.occ[a]]_vars

\* C19 witness: two full rows with a row between them were cleared, and
\* the row between them is now on the floor.
C19_Witness ==
  /\ pc = "update"
  /\ pieces = 2
  /\ cleared = <<max_ypos, max_ypos - 1>>
  /\ \E x \in 0..(width - 1) : occupation[Address(x, max_ypos)] = 2

\* C20: the restart system acting in game over sets every cell of the
\* occupation array to 0, score 0, level 1, lines counter 0, drop_rows 0,
\* game_over false, active true, falling false and create true; create
\* stays set and the array stays empty until the spawn system runs in the
\* same frame, which spawns a new piece of 4 blocks.
C20_RestartFromGameOver ==
  [][/\ (RestartRan /\ game_over)
        => /\ \A a \in DOMAIN occupation' : occupation'[a] = 0
           /\ score' = 0 /\ level' = 1 /\ lines_cleared' = 0
           /\ drop_rows' = 0
           /\ ~game_over' /\ active' /\ ~falling' /\ create'
     /\ pc = "restarted" => create'
     /\ (pc = "restarted" /\ cur = <<>>)
        => (~game_over' /\ \A a \in DOMAIN occupation' : occupation'[a] = 0)
     /\ (pc = "postupdate" /\ create)
        => (pc' = "update" /\ Len(cur') = 4 /\ pieces' = pieces + 1)]_vars

\* C20 witness: the first piece was locked with the game lost, and the
\* restart system has just acted, before the movement system of the frame.
C20_Witness ==
  /\ pc = "restarted"
  /\ pieces = 1
  /\ cur = <<>>
  /\ heap # EmptyBag
  /\ ~game_over /\ active /\ create
  /\ score = 0 /\ level = 1
  /\ \A a \in DOMAIN occupation : occupation[a] = 0

\* ---------------------------------------------------------------------
\* Restart during play.
\* ---------------------------------------------------------------------

\* The state right after the spawn that follows a restart: the second
\* spawn of the run came with no heap block, which only a restart leaves.
AfterRestartSpawn ==
  /\ pc = "update"
  /\ timer_full
  /\ pieces = 2
  /\ heap = EmptyBag

\* The frame of a restart ended in the panic of a command applied to a
\* despawned block: the movement system had run to its end.
StaleCommandPanicked == pc = "panicked" /\ locals.at = "end"

\* C21: in either order of the restart system and the movement system in
\* the frame of the restart, the frame reaches the spawn (no command meets
\* a despawned block), and after that spawn the cells marked 1 are exactly
\* the 4 cells of the new piece, no cell is marked 2, and score, level and
\* lines counter are 0, 1 and 0.
C21_RestartLeavesOnlyNewPiece ==
  /\ ~StaleCommandPanicked
  /\ AfterRestartSpawn
     => /\ Len(cur) = 4
        /\ CellsMarked(occupation, 1) = Range(cur)
        /\ CellsMarked(occupation, 2) = {}
        /\ score = 0 /\ level = 1 /\ lines_cleared = 0

\* C22: a run of the movement system in which the Restart key is pressed
\* changes no block position, no cell of the occupation array and not the
\* score.
C22_RestartTickSkipsGameplay ==
  [][(MoveRan /\ ~Restart /\ Restart')
     => UNCHANGED <<occupation, cur, heap, score>>]_vars

\* ---------------------------------------------------------------------
\* Rotation and translation in one tick.
\* ---------------------------------------------------------------------

\* the positions of pos moved by (mx, my)
Shifted(pos, mx, my) == {<<p[1] + mx, p[2] + my>> : p \in Range(pos)}

\* C23: in a tick that asks for a rotation and for a translation, the
\* movement check is the check of the blocks at their positions after the
\* rotation (the rotated positions when the rotation was accepted, the old
\* ones when it was rejected) against the array as the rotation left it;
\* the piece ends at those positions moved by
\* every axis the check allowed; and it is locked exactly when the descent
\* was wanted and that check refused it.
C23_RotationThenTranslation ==
  [][(/\ MoveDone
      /\ cur # <<>>
      /\ locals'.desired_rot # 0
      /\ (locals'.desired_x # 0 \/ locals'.desired_y # 0))
     => LET l == locals'
            after_rot == IF l.can_rot THEN Rotated(cur, l.desired_rot)
                         ELSE cur
            grid == IF l.can_rot
                    THEN RotateBlocks(1, QueryOrder(Len(cur)), occupation,
                                      cur, BoundingBox(cur),
                                      l.desired_rot).occ
                    ELSE occupation
            c == MovementCheck(1, QueryOrder(Len(cur)), grid, after_rot,
                               l.desired_x, l.desired_y, TRUE, TRUE)
        IN /\ l.can_move_x = c.can_move_x
           /\ l.can_move_y = c.can_move_y
           /\ PieceAfter = Shifted(after_rot,
                                   IF c.can_move_x THEN l.desired_x ELSE 0,
                                   IF c.can_move_y THEN l.desired_y ELSE 0)
           /\ (cur' = <<>>) = (l.desired_y # 0 /\ ~c.can_move_y)]_vars

\* ---------------------------------------------------------------------
\* The scan area of the rotation check and the rotation transform.
\* ---------------------------------------------------------------------

\* the cells of the scan area s
ScanCells(s) ==
  {<<x, y>> : x \in s.scan_min_x..s.scan_max_x,
              y \in s.scan_min_y..s.scan_max_y}

\* the cells the rotation of pos would newly occupy: positions of the
\* rotated blocks that no block of pos holds
NewlyOccupied(pos, desired_rot) ==
  Range(Rotated(pos, desired_rot)) \ Range(pos)

\* C24: for a current piece whose bounding box is 1x4, 4x1, 2x3 or 3x2 and
\* for each direction of rotation, every cell the rotation would newly
\* occupy lies in the scan area of that class and direction.
C24_ScanCoversNewCells ==
  Len(cur) = 4
  => \A desired_rot \in {1, -1} :
       LET b == BoundingBox(cur)
       IN <<1 + b.max_x - b.min_x, 1 + b.max_y - b.min_y>>
            \in {<<1, 4>>, <<4, 1>>, <<2, 3>>, <<3, 2>>}
          => NewlyOccupied(cur, desired_rot)
               \subseteq ScanCells(ScanArea(b, desired_rot))

\* ---------------------------------------------------------------------
\* The drop timer: the first tick after a spawn, and the tick of a resume.
\* ---------------------------------------------------------------------

\* the positions of the current piece after the rotation of the tick, if
\* one was wanted and accepted
AfterRotation ==
  IF locals'.desired_rot # 0 /\ locals'.can_rot
  THEN Rotated(cur, locals'.desired_rot) ELSE cur

\* C25: in the first run of the movement system after a spawn, with the
\* session active, the timer has finished and a descent is wanted, and the
\* piece ends one row lower (whatever the rotation and the horizontal move
\* of the tick did) or is locked.
C25_FirstTickDrops ==
  [][(MoveRan /\ timer_full /\ cur # <<>> /\ active /\ active')
     => /\ locals'.desired_y = 1
        /\ \/ cur' = <<>> /\ heap' # heap
           \/ \E mx \in {-1, 0, 1} :
                 Range(cur') = Shifted(AfterRotation, mx, 1)]_vars

\* C26: in the run of the movement system in which TogglePause resumes a
\* paused session that is not under a hard drop, no descent is wanted and
\* the piece is neither moved down nor locked, whether or not the timer
\* finished in that tick.
C26_ResumeTickHasNoDrop ==
  [][(MoveRan /\ ~active /\ active' /\ ~falling' /\ cur # <<>>)
     => /\ locals'.desired_y = 0
        /\ \E mx \in {-1, 0, 1} :
              Range(cur') = Shifted(AfterRotation, mx, 0)]_vars

\* ---------------------------------------------------------------------
\* Positions and indices.
\* ---------------------------------------------------------------------

\* a run of the movement system stopped at an index outside the array
IndexPanicked == pc = "panicked" /\ locals.at = "panic"

\* C27: every block of the current piece and of the heap has
\* 0 <= x < width and 0 <= y < full_height, and no system has indexed the
\* occupation array outside [0, width * full_height).
C27_PositionsAndIndicesInRange ==
  /\ \A i \in DOMAIN cur : InField(cur[i])
  /\ \A p \in BagToSet(heap) : InField(p)
  /\ ~IndexPanicked

\* ---------------------------------------------------------------------
\* The scan for full rows.
\* ---------------------------------------------------------------------

\* the number of cells marked 2
HeapCells(occ) == Cardinality({a \in DOMAIN occ : occ[a] = 2})

\* C28: the scan for full rows starts at the bottom row; each iteration
\* either finds the row full and removes it (y stays, the array holds one
\* row of heap cells less) or leaves the array and moves y up by one; the
\* loop is left only with y negative; and every scan that has started is
\* left.
C28_CascadeScanTerminates ==
  /\ (pc = "cascade") ~> (pc # "cascade")
  /\ [][(pc = "postupdate" /\ pc' = "cascade")
        => scan_y' = full_height - 1]_vars
  /\ [][(pc = "cascade" /\ pc' = "cascade")
        => IF FullRow(occupation, scan_y)
           THEN /\ scan_y' = scan_y
                /\ HeapCells(occupation') = HeapCells(occupation) - width
                /\ Len(cleared') = Len(cleared) + 1
           ELSE /\ scan_y' = scan_y - 1
                /\ occupation' = occupation
                /\ cleared' = cleared]_vars
  /\ [][(pc = "cascade" /\ pc' # "cascade") => scan_y < 0]_vars

\* C28 witness: the scan has removed two full rows and is again at the
\* bottom row, which is full once more.
C28_Witness ==
  /\ pc = "cascade"
  /\ scan_y = max_ypos
  /\ Len(cleared) = 2
  /\ FullRow(occupation, scan_y)

\* ---------------------------------------------------------------------
\* Lock, cascade, spawn.
\* ---------------------------------------------------------------------

\* C29: a lock that does not end the game sets create and ends the
\* movement of the frame; the restart system, if it still runs, keeps
\* create set; the spawn system that finds create set removes every full
\* row in one cascade and only then spawns one piece of 4 blocks, and
\* resets create; the spawn system that finds create not set changes
\* nothing.
C29_LockThenCascadeThenSpawn ==
  [][/\ (LockedNow /\ ~game_over')
        => (create' /\ pc' \in {"postupdate", "moved"})
     /\ pc = "moved" => (pc' = "postupdate" /\ create')
     /\ (pc = "postupdate" /\ create)
        => /\ pc' = "update"
           /\ ~create'
           /\ pieces' = pieces + 1
           /\ Len(cur') = 4
           /\ cleared' = ClearRows(full_height - 1, occupation, heap, 0).at
           /\ \A y \in 0..(full_height - 1) : ~FullRow(occupation', y)
           /\ Range(cur') \subseteq CellsMarked(occupation', 1)
     /\ (pc = "postupdate" /\ ~create)
        => /\ pc' = "update"
           /\ UNCHANGED <<occupation, cur, heap, create, score, level,
                          lines_cleared, pieces, cleared>>]_vars

\* C29 witness: the second piece locked without ending the game, filling
\* the bottom row; the cascade removed that row and the third piece was
\* spawned.
C29_Witness ==
  /\ pc = "update"
  /\ pieces = 3
  /\ cleared = <<max_ypos>>
  /\ Len(cur) = 4
  /\ ~game_over

\* ---------------------------------------------------------------------
\* MoveLeft together with a down intent.
\* ---------------------------------------------------------------------

\* C30: a tick that asks for a move to the left and for a descent (and for
\* no rotation) is handled like one that asks for a move to the right and
\* a descent: the movement check runs on both axes, the piece is moved by
\* every axis the check allows, and it is locked when the check refuses the
\* descent.
C30_LeftAndDownLikeRightAndDown ==
  [][(/\ MoveDone
      /\ cur # <<>>
      /\ locals'.desired_rot = 0
      /\ locals'.desired_x = -1
      /\ locals'.desired_y = 1)
     => LET c == MovementCheck(1, QueryOrder(Len(cur)), occupation, cur,
                               -1, 1, TRUE, TRUE)
        IN /\ locals'.can_move_x = c.can_move_x
           /\ locals'.can_move_y = c.can_move_y
           /\ PieceAfter = Shifted(cur, IF c.can_move_x THEN -1 ELSE 0,
                                        IF c.can_move_y THEN 1 ELSE 0)
           /\ (cur' = <<>>) = ~c.can_move_y]_vars

\* ---------------------------------------------------------------------
\* Acceptance of rotations, and the shapes rotations produce.
\* ---------------------------------------------------------------------

\* every cell the rotation of pos would give to a block lies in the field
\* and holds no heap mark
TargetsFree(occ, pos, desired_rot) ==
  \A p \in Range(Rotated(pos, desired_rot)) :
     InField(p) /\ occ[Address(p[1], p[2])] # 2

\* C31: a tick that asks for the rotation of a piece that is not the
\* square, where every cell the rotated piece would occupy is inside the
\* field and not marked 2, accepts the rotation.
C31_NoFalseRejection ==
  [][(/\ MoveDone
      /\ Len(cur) = 4
      /\ ~IsSquare(cur)
      /\ locals'.desired_rot # 0
      /\ TargetsFree(occupation, cur, locals'.desired_rot))
     => locals'.can_rot]_vars

\* a set of cells moved so that its bounding box starts at <<0, 0>>
Normalised(cells) ==
  LET x0 == Min({p[1] : p \in cells})
      y0 == Min({p[2] : p \in cells})
  IN {<<p[1] - x0, p[2] - y0>> : p \in cells}

\* a set of cells turned by 90 degrees about the origin (y grows downwards):
\* clockwise for 1, anticlockwise for -1
Turned(cells, desired_rot) ==
  {IF desired_rot = 1 THEN <<0 - p[2], p[1]>> ELSE <<p[2], 0 - p[1]>> :
     p \in cells}

\* the bounding-box classes the scan table and rotate_block list
KnownClasses == {<<2, 2>>, <<1, 4>>, <<4, 1>>, <<2, 3>>, <<3, 2>>}

\* the class of the bounding box of pos
ClassOf(pos) ==
  LET b == BoundingBox(pos)
  IN <<1 + b.max_x - b.min_x, 1 + b.max_y - b.min_y>>

\* C32: whenever a piece is current its 4 blocks stand on 4 distinct cells
\* and its bounding box is 2x2, 1x4, 4x1, 2x3 or 3x2, so that a rotation of
\* the piece meets a listed branch of the scan table and of rotate_block;
\* and an accepted rotation leaves the piece in the shape it had, turned by
\* 90 degrees in the direction asked for.
C32_RotationKeepsTetromino ==
  /\ [](Len(cur) = 4
        => /\ Cardinality(Range(cur)) = 4
           /\ ClassOf(cur) \in KnownClasses)
  /\ [][(/\ MoveDone
         /\ Len(cur) = 4
         /\ locals'.desired_rot # 0
         /\ locals'.can_rot)
        => /\ Cardinality(PieceAfter) = 4
           /\ Normalised(PieceAfter)
                = Normalised(Turned(Range(cur), locals'.desired_rot))]_vars

\* C32 witness: a rotation of a piece lying in a 3x2 box was accepted and
\* the piece now stands in a 2x3 box.
C32_Witness ==
  /\ pc = "postupdate"
  /\ locals.at = "end"
  /\ locals.desired_rot = 1
  /\ locals.can_rot
  /\ Len(cur) = 4
  /\ ClassOf(cur) = <<2, 3>>

\* ---------------------------------------------------------------------
\* Successive rotations.
\* ---------------------------------------------------------------------

\* Mutation of TurnOnce: the block first in the query keeps its position.
TurnOnce_FirstBlockStays(s, desired_rot) ==
  IF s.ok /\ CanRot(s.occ, s.pos, desired_rot)
  THEN LET r == RotateBlocks(1, QueryOrder(Len(s.pos)), s.occ, s.pos,
                             BoundingBox(s.pos), desired_rot)
       IN [ok |-> ~r.fault, occ |-> r.occ,
           pos |-> [r.pos EXCEPT ![1] = s.pos[1]]]
  ELSE [ok |-> FALSE, occ |-> s.occ, pos |-> s.pos]

\* The rotation check and the rotation of one rotation-only tick, applied
\* to the array and the blocks of s; ok is lost when the rotation is
\* rejected (or an index leaves the array).
TurnOnce(s, desired_rot) ==
  IF s.ok /\ CanRot(s.occ, s.pos, desired_rot)
  THEN LET r == RotateBlocks(1, QueryOrder(Len(s.pos)), s.occ, s.pos,
                             BoundingBox(s.pos), desired_rot)
       IN [ok |-> ~r.fault, occ |-> r.occ, pos |-> r.pos]
  ELSE [ok |-> FALSE, occ |-> s.occ, pos |-> s.pos]

\* two and four such ticks in a row, from the present state
TurnTwice(desired_rot) ==
  TurnOnce(TurnOnce([ok |-> TRUE, occ |-> occupation, pos |-> cur],
                    desired_rot), desired_rot)

TurnFourTimes(desired_rot) ==
  TurnOnce(TurnOnce(TurnTwice(desired_rot), desired_rot), desired_rot)

\* C33: for a current T, S, Z, L or J piece and either direction, when two
\* successive rotations are accepted the piece is back in its bounding
\* box, and when four are accepted each block is back on its cell.
C33_FourTurnsAreIdentity ==
  (pc = "update" /\ Len(cur) = 4 /\ tet_type \in 2..6)
  => \A desired_rot \in {1, -1} :
       /\ TurnTwice(desired_rot).ok
          => BoundingBox(TurnTwice(desired_rot).pos) = BoundingBox(cur)
       /\ TurnFourTimes(desired_rot).ok
          => TurnFourTimes(desired_rot).pos = cur

\* C33 witness: a T piece stands where four clockwise rotations in a row
\* are all accepted.
C33_Witness ==
  /\ pc = "update"
  /\ Len(cur) = 4
  /\ tet_type = 2
  /\ TurnFourTimes(1).ok

\* C34: for a current I piece and either direction, when two successive
\* rotations in that direction are accepted, each of the 4 blocks is back
\* on its original cell.
C34_BarTwoTurnsAreIdentity ==
  (pc = "update" /\ Len(cur) = 4 /\ tet_type = 0)
  => \A desired_rot \in {1, -1} :
       TurnTwice(desired_rot).ok => TurnTwice(desired_rot).pos = cur

\* C34 witness: an upright I piece stands where two counter-clockwise
\* rotations in a row are both accepted.
C34_Witness ==
  /\ pc = "update"
  /\ Len(cur) = 4
  /\ tet_type = 0
  /\ BoundingBox(cur).max_x = BoundingBox(cur).min_x
  /\ TurnTwice(-1).ok

\* ---------------------------------------------------------------------
\* The forced fall.
\* ---------------------------------------------------------------------

\* a run of move_current_tetromino, with a current piece, in which the
\* forced fall is on (from before, or by the HardDrop key of this run) and
\* the session is active at the pause test
FallingTick == MoveRan /\ cur # <<>> /\ falling' /\ locals'.at # "paused"

\* C35: a tick of an active session under the forced fall wants no
\* horizontal move and no rotation, and either moves every block of the
\* piece down by exactly one row or locks the piece where it is; the
\* piece has then moved down fewer than full_height rows since the
\* HardDrop key, so that it locks within full_height ticks; and the forced
\* fall stays on until a spawn (or the restart system) clears it.
C35_HardDropFallsToLock ==
  /\ []((falling /\ cur # <<>>) => /\ fall.rows <= BoundingBox(cur).max_y
                                   /\ fall.rows + 1 <= full_height)
  /\ [][/\ FallingTick
           => /\ locals'.at = "end"
              /\ locals'.desired_x = 0
              /\ locals'.desired_rot = 0
              /\ locals'.desired_y = 1
              /\ IF LockedNow
                 THEN /\ cur' = <<>>
                      /\ heap' = heap (+) BagOfBlocks(cur)
                      /\ fall'.rows = fall.rows
                 ELSE /\ cur' = [i \in DOMAIN cur |->
                                   <<cur[i][1], cur[i][2] + 1>>]
                      /\ fall'.rows = fall.rows + 1
        /\ (falling /\ ~falling') => (SpawnRan \/ RestartRan)]_vars

\* C35 witness: under the forced fall the piece has moved down two rows
\* in an active session and is still current.
C35_Witness ==
  /\ pc = "postupdate"
  /\ locals.at = "end"
  /\ active
  /\ falling
  /\ cur # <<>>
  /\ fall.rows = 2
  /\ fall.paused = 0

\* ---------------------------------------------------------------------
\* The spawn buffer.
\* ---------------------------------------------------------------------

\* the cells of the spawn-buffer rows that are marked Locked
BufferLocked(occ) == {p \in CellsMarked(occ, 2) : p[2] < BUFFER_ROWS}

\* the array as the spawn finds it after its cascade, where it writes the
\* new piece
ArrayAtSpawn == ClearRows(full_height - 1, occupation, heap, 0).occ

\* C36: while the game is not over no cell of the spawn-buffer rows is
\* marked Locked, and the cells a spawn writes are Empty before it writes
\* them, so that no heap block lies under the new piece.
C36_SpawnCellsEmpty ==
  /\ [](~game_over => BufferLocked(occupation) = {})
  /\ [][SpawnRan
        => /\ \A i \in DOMAIN cur' :
                ArrayAtSpawn[Address(cur'[i][1], cur'[i][2])] = 0
           /\ Range(cur') \cap BagToSet(heap') = {}]_vars

\* ---------------------------------------------------------------------
\* The lines counter.
\* ---------------------------------------------------------------------

\* C37: in every state the lines counter c is at least 0 and less than
\* 10 * level, at the level cap as well.
C37_LinesBelowThreshold ==
  /\ lines_cleared >= 0
  /\ lines_cleared < 10 * level

\* C37 witness: a cascade at the level cap cleared rows and left the
\* counter one line short of 10 * 20.
C37_Witness ==
  /\ pc = "update"
  /\ pieces = 2
  /\ Len(cleared) >= 1
  /\ level = MAX_LEVEL
  /\ lines_cleared = 10 * MAX_LEVEL - 1

\* ---------------------------------------------------------------------
\* Where the score changes.
\* ---------------------------------------------------------------------

\* C38: in a step that is not the restart system acting, the score
\* changes only when a spawn cycle cleared at least one row or when a
\* piece locks under the forced fall, and level and lines counter change
\* only when a spawn cycle cleared at least one row; every other run of a
\* system leaves the three unchanged.
C38_ScoreChangesInTwoPlaces ==
  [][~RestartRan
     => /\ score' # score
           => \/ SpawnRan /\ Len(cleared') >= 1
              \/ LockedNow /\ falling'
        /\ <<level', lines_cleared'>> # <<level, lines_cleared>>
           => SpawnRan /\ Len(cleared') >= 1]_vars

\* C38 witness: the second piece was laid beside the heap and locked under
\* a hard drop, which added its bonus, and the spawn cycle that followed
\* cleared the bottom row and added the 100 points of one row at level 1.
C38_Witness ==
  /\ pc = "update"
  /\ pieces = 3
  /\ Len(cleared) = 1
  /\ score > 100
  /\ level = 1
  /\ lines_cleared = 1
====
